---- MODULE Spec2Model ----
(***************************************************************************)
(* Model of tg_api/client.py: the cursor kept by ValidatorClient and the   *)
(* deferred task queue and tick-driven dispatch of HandlerClient.          *)
(*                                                                         *)
(* One HandlerClient instance is modelled in full.  The transport and      *)
(* the platform are the environment: every call draws its response from    *)
(* UpdateResponses or MessageResponses (no response, a status other than   *)
(* 200, a 200 whose body validates or does not).  Callbacks and handlers   *)
(* are application code: each invocation either returns or raises.  An     *)
(* exception that leaves a call is recorded in last.raised ("none" when    *)
(* the call returned); the driver may go on calling the client afterwards. *)
(*                                                                         *)
(* Time is kept as the timedelta tick() computes, datetime.now() minus     *)
(* _last_query: Elapse lets it grow, a tick that reaches its last line     *)
(* sets it to 0.                                                           *)
(*                                                                         *)
(* Spec is the engine under its driver.  SpecFetch adds direct calls of    *)
(* get_updates, SpecDelivery the history of what each handler was passed,  *)
(* SpecReentrant callbacks and handlers that schedule actions while a tick *)
(* runs them, SpecPair a second client built in the same process, and      *)
(* SpecLive a driver that calls tick forever.                              *)
(***************************************************************************)
EXTENDS Integers, Sequences, FiniteSets, TLC

VARIABLES
    offset_autoupdate,  \* ValidatorClient.offset_autoupdate
    min_query_delay,    \* HandlerClient.min_query_delay (microseconds)
    update_handlers,    \* HandlerClient.update_handlers
    _offset,            \* ValidatorClient._offset, the cursor
    _queue,             \* HandlerClient._queue: sequence of (task, callback)
    elapsed,            \* datetime.now() - self._last_query, in microseconds
    scheduled,          \* history: every entry ever appended to _queue, in order
    executed,           \* history: every queue entry whose task was run, in order
    since_work,         \* history: <<time since the last tick that ran work was invoked>>
    last,               \* history: what the last operation did
    seen,               \* history: per handler, the highest update_id ticks passed to it
                        \*          (kept by the ticks of SpecDelivery)
    peer_update_handlers,   \* update_handlers of a second HandlerClient
    peer_queue,             \* _queue of the second HandlerClient
    shared_default,     \* both clients were built without an update_handlers argument
    registered          \* history: the handlers given to or added on each client

vars == <<offset_autoupdate, min_query_delay, update_handlers, _offset, _queue,
          elapsed, scheduled, executed, since_work, last, seen,
          peer_update_handlers, peer_queue, shared_default, registered>>

options == <<offset_autoupdate, min_query_delay>>

config == <<options, update_handlers>>

peer == <<peer_update_handlers, peer_queue, shared_default, registered>>

----------------------------------------------------------------------------
(* Bounds of the model *)

MaxId == 2          \* largest update_id the platform hands out
MaxScheduled == 2   \* number of actions scheduled in one run
MaxShortWaits == 2  \* short waits the driver lets pass before the next call

(* Program constants *)

DefaultMinQueryDelay == 50000   \* min_query_delay: int = 50000
MicrosPerSecond == 1000000      \* timedelta.microseconds is in 0..999999
StatusOk == 200                 \* resp.status_code == 200
StatusBad == 400                \* any other status
NoOffset == -1                  \* offset: int | None = None

ShortWait == DefaultMinQueryDelay \div 2
LongMinQueryDelay == 2 * MicrosPerSecond

Handlers == {"h1", "h2"}
InTickMethods == {"sendMessage", "editMessageReplyMarkup"}
MessageIds == {1}
Waits == {ShortWait, MicrosPerSecond}
DriverSleeps == {DefaultMinQueryDelay, MicrosPerSecond}
OffsetArgs == {NoOffset, 0, 1}

\* The scheduling calls the application makes: each kind of action with the
\* callback passed for it ("default" is the parameter's default, lambda _: None).
CallbackFor(method) ==
    CASE method = "sendMessage" -> "on_sent"
      [] method = "editMessageText" -> "on_edited"
      [] OTHER -> "default"

----------------------------------------------------------------------------
(* Values *)

NoneValue == [tag |-> "None"]
Message(m) == [tag |-> "Message", message_id |-> m]
UpdateList(ids) == [tag |-> "list", ids |-> ids]
Malformed == [tag |-> "malformed"]

\* The batches the platform may answer a request at offset lo with: ascending
\* sequences of distinct update_ids, none below lo, the first id being 1.
RECURSIVE SortedSeq(_)
SortedSeq(S) ==
    IF S = {} THEN <<>>
    ELSE LET m == CHOOSE x \in S : \A y \in S : x <= y
         IN <<m>> \o SortedSeq(S \ {m})

Batches(lo) ==
    {SortedSeq(S) : S \in SUBSET ((IF lo < 1 THEN 1 ELSE lo)..MaxId)}

\* What session.post hands back: no response, a non-200 status, or a 200
\* whose body validates or does not.
NoResponse == [present |-> FALSE, status_code |-> 0, result |-> Malformed]
BadStatus == [present |-> TRUE, status_code |-> StatusBad, result |-> Malformed]
OkResponse(r) == [present |-> TRUE, status_code |-> StatusOk, result |-> r]

UpdateResponses(lo) ==
    {NoResponse, BadStatus, OkResponse(Malformed)}
        \cup {OkResponse(UpdateList(b)) : b \in Batches(lo)}

MessageResponses ==
    {NoResponse, BadStatus, OkResponse(Malformed)}
        \cup {OkResponse(Message(m)) : m \in MessageIds}

----------------------------------------------------------------------------
(* ValidatorClient *)

\* The cursor left out of the request: `offset` passed on as it came.
RequestOffsetNoCursor(offset) == IF offset = NoOffset THEN 0 ELSE offset

\* `offset or self._offset`: None and 0 are both falsy.
RequestOffset(offset) ==
    IF offset = NoOffset \/ offset = 0 THEN _offset ELSE offset

\* `resp is not None and resp.status_code == 200`
Succeeded(resp) == resp.present /\ resp.status_code = StatusOk

RECURSIVE MaxUpdateId(_)
MaxUpdateId(ids) ==
    IF Len(ids) = 1 THEN ids[1]
    ELSE LET m == MaxUpdateId(Tail(ids))
         IN IF ids[1] > m THEN ids[1] ELSE m

\* The cursor taken from the first update of the batch instead of the largest.
NextOffsetFirst(ids) ==
    IF offset_autoupdate /\ ids # <<>> THEN ids[1] + 1 ELSE _offset

\* The cursor left where it was.
NextOffsetKept(ids) == _offset

\* `if self.offset_autoupdate and updates: self._offset = max(...) + 1`
NextOffset(ids) ==
    IF offset_autoupdate /\ ids # <<>> THEN MaxUpdateId(ids) + 1 ELSE _offset

\* ValidatorClient.get_updates on a response: the value returned (None when
\* the function falls off its end), the cursor afterwards, and whether
\* validate_python raised.
GetUpdates(resp) ==
    IF ~Succeeded(resp)
    THEN [raised |-> "none", value |-> NoneValue, offset |-> _offset]
    ELSE IF resp.result.tag # "list"
    THEN [raised |-> "ValidationError", value |-> NoneValue, offset |-> _offset]
    ELSE [raised |-> "none", value |-> resp.result,
          offset |-> NextOffset(resp.result.ids)]

\* ValidatorClient.send_message / edit_message_text / edit_message_reply_markup
\* on a response: a Message, None, or model_validate raising.
ValidateMessage(resp) ==
    IF ~Succeeded(resp)
    THEN [raised |-> "none", value |-> NoneValue]
    ELSE IF resp.result.tag # "Message"
    THEN [raised |-> "ValidationError", value |-> NoneValue]
    ELSE [raised |-> "none", value |-> resp.result]

----------------------------------------------------------------------------
(* HandlerClient *)

Entry(method, callback) == [task |-> [method |-> method], callback |-> callback]

\* The orders in which `for h in self.update_handlers` may visit a set.
Orders(S) ==
    {o \in [1..Cardinality(S) -> S] : \A i, j \in DOMAIN o : o[i] = o[j] => i = j}

\* The updates dispatched newest first.
RECURSIVE InvocationsNewestFirst(_, _)
InvocationsNewestFirst(ids, order) ==
    IF ids = <<>> THEN <<>>
    ELSE InvocationsNewestFirst(Tail(ids), order)
             \o [i \in 1..Len(order) |-> [handler |-> order[i], update_id |-> ids[1]]]

\* general_handler: `for u in updates: for h in self.update_handlers: h(u)`,
\* the invocations in the order they are made.
RECURSIVE Invocations(_, _)
Invocations(ids, order) ==
    IF ids = <<>> THEN <<>>
    ELSE [i \in 1..Len(order) |-> [handler |-> order[i], update_id |-> ids[1]]]
             \o Invocations(Tail(ids), order)

\* general_handler with every invocation guarded: a handler that raises does
\* not keep the invocations after it from being made.
GeneralHandlerIsolated(value, order, stop) ==
    IF value.tag # "list"
    THEN [raised |-> "TypeError", handled |-> <<>>]
    ELSE [raised |-> IF stop = 0 THEN "none" ELSE "handler",
          handled |-> Invocations(value.ids, order)]

\* general_handler refusing an empty batch as it refuses None.
GeneralHandlerNoEmpty(value, order, stop) ==
    IF value.tag # "list" \/ value.ids = <<>>
    THEN [raised |-> "TypeError", handled |-> <<>>]
    ELSE LET all == Invocations(value.ids, order)
         IN IF stop = 0
            THEN [raised |-> "none", handled |-> all]
            ELSE [raised |-> "handler", handled |-> SubSeq(all, 1, stop)]

\* general_handler on the value tick passes it.  `for u in None` raises a
\* TypeError before any handler runs; a handler that raises ends the loops at
\* its invocation (`stop` is the index of the invocation that raises, 0 when
\* none does).
GeneralHandler(value, order, stop) ==
    IF value.tag # "list"
    THEN [raised |-> "TypeError", handled |-> <<>>]
    ELSE LET all == Invocations(value.ids, order)
         IN IF stop = 0
            THEN [raised |-> "none", handled |-> all]
            ELSE [raised |-> "handler", handled |-> SubSeq(all, 1, stop)]

\* `(datetime.now() - self._last_query).microseconds`: the microsecond field
\* of the timedelta, not its total length.
Microseconds(delta) == delta % MicrosPerSecond

\* A clock that is unset until the first unit of work: no tick is throttled
\* before it.
ThrottledAfterWork ==
    since_work # <<>> /\ Microseconds(elapsed) < min_query_delay

\* `if (...).microseconds < self.min_query_delay: return`
Throttled == Microseconds(elapsed) < min_query_delay

\* A pop() in place of pop(0): the newest entry is taken.
PoppedNewest(q) == [entry |-> q[Len(q)], rest |-> SubSeq(q, 1, Len(q) - 1)]

\* The head read but left in the queue, to be run again.
PoppedKept(q) == [entry |-> Head(q), rest |-> q]

\* `task, callback = self._queue.pop(0)`
Popped(q) == [entry |-> Head(q), rest |-> Tail(q)]

\* insert(0, ...) in place of append: the new entry goes to the head.
AppendedFirst(q, e) == <<e>> \o q

\* `self._queue.append((partial(...), callback))`
Appended(q, e) == Append(q, e)

\* The entries scheduled inside a tick put ahead of the queued ones.
AppendedAllAhead(q, entries) == entries \o q

\* The queue after the scheduling calls made, in order, by application code
\* that runs inside a tick.
RECURSIVE AppendedAll(_, _)
AppendedAll(q, entries) ==
    IF entries = <<>> THEN q
    ELSE AppendedAll(Appended(q, Head(entries)), Tail(entries))

\* The scheduling calls a callback or the handlers of one tick may make: up
\* to `room` of them, each with a callback of its own or with the default.
InTick(room) ==
    UNION {[1..k -> {Entry(m, CallbackFor(m)) : m \in InTickMethods}] : k \in 1..room}

\* The highest update_id each handler has been passed, after `handled`.
SeenAfter(handled) ==
    [h \in Handlers |->
        LET ids == {handled[i].update_id : i \in {j \in DOMAIN handled : handled[j].handler = h}}
        IN IF ids = {} THEN seen[h]
           ELSE CHOOSE m \in ids \cup {seen[h]} : \A n \in ids \cup {seen[h]} : n <= m]

\* The scheduling calls application code may still make inside a tick: as
\* many as the application may make between ticks, and one more.
Room == MaxScheduled + 1 - Len(scheduled)

\* The elapsed times the model explores: up to MaxShortWaits short waits, or
\* one whole second.
Explored(e) ==
    /\ e <= MicrosPerSecond
    /\ Microseconds(e) <= MaxShortWaits * ShortWait

Later(s, d) ==
    IF s = <<>> THEN s
    ELSE <<IF s[1] + d > min_query_delay THEN min_query_delay ELSE s[1] + d>>

Quiet(op) ==
    [op |-> op, throttled |-> FALSE, work |-> "none", raised |-> "none",
     calls |-> <<>>, resp |-> NoResponse, popped |-> <<>>,
     called_back |-> <<>>, handled |-> <<>>, raised_at |-> 0, gap |-> <<>>,
     extra |-> <<>>, pre_offset |-> _offset, pre_queue |-> _queue,
     pre_handlers |-> update_handlers,
     pre_peer |-> [update_handlers |-> peer_update_handlers, queue |-> peer_queue]]

\* The constructor arguments explored: the defaults with both handlers
\* registered, and each argument changed in turn.
Options(autoupdate, delay, handlers) ==
    [offset_autoupdate |-> autoupdate, min_query_delay |-> delay,
     update_handlers |-> handlers]

Constructions ==
    {Options(TRUE, DefaultMinQueryDelay, Handlers),
     Options(FALSE, DefaultMinQueryDelay, Handlers),
     Options(TRUE, LongMinQueryDelay, Handlers),
     Options(TRUE, DefaultMinQueryDelay, {})}

Init ==
    /\ \E o \in Constructions :
        /\ offset_autoupdate = o.offset_autoupdate
        /\ min_query_delay = o.min_query_delay
        /\ update_handlers = o.update_handlers
    /\ _offset = 0
    /\ _queue = <<>>
    /\ elapsed = 0
    /\ scheduled = <<>>
    /\ executed = <<>>
    /\ since_work = <<>>
    /\ seen = [h \in Handlers |-> 0]
    /\ peer_update_handlers = {}
    /\ peer_queue = <<>>
    /\ shared_default = FALSE
    /\ registered = [here |-> update_handlers, peer |-> {}]
    /\ last = Quiet("init")

\* HandlerClient(update_handlers=Handlers): the other arguments at their
\* defaults.
InitDefault ==
    /\ Init
    /\ offset_autoupdate
    /\ min_query_delay = DefaultMinQueryDelay
    /\ update_handlers = Handlers

\* Two clients in one process, each built with HandlerClient() or each with
\* HandlerClient(update_handlers=set()).  The default of the parameter is one
\* set, made when the class body is run: clients built without the argument
\* hold that same set.
InitPair ==
    /\ offset_autoupdate = TRUE
    /\ min_query_delay = DefaultMinQueryDelay
    /\ update_handlers = {}
    /\ _offset = 0
    /\ _queue = <<>>
    /\ elapsed = 0
    /\ scheduled = <<>>
    /\ executed = <<>>
    /\ since_work = <<>>
    /\ seen = [h \in Handlers |-> 0]
    /\ peer_update_handlers = {}
    /\ peer_queue = <<>>
    /\ shared_default \in BOOLEAN
    /\ registered = [here |-> {}, peer |-> {}]
    /\ last = Quiet("init")

\* `client.update_handlers.add(h)`: the set the attribute refers to is
\* changed in place, for every client that holds it.
AddHandler ==
    \E h \in Handlers \ registered.here :
        /\ update_handlers' = update_handlers \cup {h}
        /\ peer_update_handlers' =
               IF shared_default THEN peer_update_handlers \cup {h}
               ELSE peer_update_handlers
        /\ registered' = [registered EXCEPT !.here = @ \cup {h}]
        /\ last' = Quiet("add_handler")
        /\ UNCHANGED <<options, seen, peer_queue, shared_default, _offset,
                       _queue, elapsed, scheduled, executed, since_work>>

\* `peer.update_handlers.add(h)`
PeerAddHandler ==
    \E h \in Handlers \ registered.peer :
        /\ peer_update_handlers' = peer_update_handlers \cup {h}
        /\ update_handlers' =
               IF shared_default THEN update_handlers \cup {h}
               ELSE update_handlers
        /\ registered' = [registered EXCEPT !.peer = @ \cup {h}]
        /\ last' = Quiet("peer_add_handler")
        /\ UNCHANGED <<options, seen, peer_queue, shared_default, _offset,
                       _queue, elapsed, scheduled, executed, since_work>>

\* `peer.send_message(...)`: appended to the peer's own list.
PeerSchedule ==
    /\ Len(peer_queue) < MaxScheduled
    /\ peer_queue' =
           Appended(peer_queue, Entry("sendMessage", CallbackFor("sendMessage")))
    /\ last' = Quiet("peer_schedule")
    /\ UNCHANGED <<config, seen, peer_update_handlers, shared_default,
                   registered, _offset, _queue, elapsed, scheduled, executed,
                   since_work>>

Schedule(method, callback) ==
    /\ Len(scheduled) < MaxScheduled
    /\ _queue' = Appended(_queue, Entry(method, callback))
    /\ scheduled' = Append(scheduled, Entry(method, callback))
    /\ last' = Quiet("schedule")
    /\ UNCHANGED <<config, peer, seen, _offset, elapsed, executed, since_work>>

\* HandlerClient.send_message
send_message == Schedule("sendMessage", CallbackFor("sendMessage"))

\* HandlerClient.edit_message_text
edit_message_text == Schedule("editMessageText", CallbackFor("editMessageText"))

\* HandlerClient.edit_message_reply_markup
edit_message_reply_markup ==
    Schedule("editMessageReplyMarkup", CallbackFor("editMessageReplyMarkup"))

\* A throttled tick that sets the clock all the same.
TickThrottledSetsClock ==
    /\ Throttled
    /\ elapsed' = 0
    /\ last' = [Quiet("tick") EXCEPT !.throttled = TRUE, !.gap = since_work]
    /\ UNCHANGED <<config, peer, seen, _offset, _queue, scheduled, executed, since_work>>

\* tick, first branch: the delay has not elapsed.
TickThrottled ==
    /\ Throttled
    /\ last' = [Quiet("tick") EXCEPT !.throttled = TRUE, !.gap = since_work]
    /\ UNCHANGED <<config, peer, seen, _offset, _queue, elapsed, scheduled, executed,
                   since_work>>

\* tick with a non-empty queue: pop the head, run the task, pass its result
\* to the callback, then set the clock.  An exception from the task or the
\* callback leaves tick before the clock is set.  The two readings of
\* datetime.now() in one tick are taken at the same instant.  `extra` is the
\* scheduling calls the callback makes on this client while it runs.
TickActionWith(extra) ==
    /\ ~Throttled
    /\ _queue # <<>>
    /\ Len(extra) <= Room
    /\ \E resp \in MessageResponses, cb_raises \in BOOLEAN :
        LET p == Popped(_queue)
            e == p.entry
            r == ValidateMessage(resp)
            called == r.raised = "none"
            raised == IF cb_raises THEN "callback" ELSE r.raised
        IN /\ cb_raises => (called /\ e.callback # "default")
           /\ extra # <<>> => (called /\ e.callback # "default")
           /\ _queue' = AppendedAll(p.rest, extra)
           /\ scheduled' = scheduled \o extra
           /\ executed' = Append(executed, e)
           /\ elapsed' = IF raised # "none" THEN elapsed ELSE 0
           /\ since_work' = <<0>>
           /\ last' = [Quiet("tick") EXCEPT
                         !.work = "action",
                         !.raised = raised,
                         !.calls = <<[method |-> e.task.method, offset |-> NoOffset]>>,
                         !.resp = resp,
                         !.popped = <<e>>,
                         !.called_back =
                             IF called
                             THEN <<[callback |-> e.callback, arg |-> r.value]>>
                             ELSE <<>>,
                         !.extra = extra,
                         !.gap = since_work]
           /\ UNCHANGED <<config, peer, seen, _offset>>

\* tick running a queued action whose callback schedules nothing.
TickAction == TickActionWith(<<>>)

\* tick running a queued action whose callback schedules further actions.
TickActionScheduling ==
    \E extra \in InTick(Room) : TickActionWith(extra)

\* tick with an empty queue: ValidatorClient.get_updates() at the cursor, the
\* result handed to general_handler, then the clock.  `extra` is the
\* scheduling calls the handlers make on this client while they run; the
\* history `seen` is kept when `tracked`.
TickFetchWith(extra, tracked) ==
    /\ ~Throttled
    /\ _queue = <<>>
    /\ Len(extra) <= Room
    /\ \E resp \in UpdateResponses(RequestOffset(NoOffset)),
          order \in Orders(update_handlers) :
        LET g == GetUpdates(resp)
            n == IF g.value.tag = "list"
                 THEN Len(g.value.ids) * Cardinality(update_handlers) ELSE 0
        IN \E stop \in 0..n :
            LET h == IF g.raised # "none"
                     THEN [raised |-> g.raised, handled |-> <<>>]
                     ELSE GeneralHandler(g.value, order, stop)
            IN /\ extra # <<>> => h.handled # <<>>
               /\ _offset' = g.offset
               /\ _queue' = AppendedAll(_queue, extra)
               /\ scheduled' = scheduled \o extra
               /\ seen' = IF tracked THEN SeenAfter(h.handled) ELSE seen
               /\ elapsed' = IF h.raised # "none" THEN elapsed ELSE 0
               /\ since_work' = <<0>>
               /\ last' = [Quiet("tick") EXCEPT
                             !.work = "fetch",
                             !.raised = h.raised,
                             !.calls = <<[method |-> "getUpdates",
                                          offset |-> RequestOffset(NoOffset)]>>,
                             !.resp = resp,
                             !.handled = h.handled,
                             !.raised_at = IF h.raised = "handler" THEN stop ELSE 0,
                             !.extra = extra,
                             !.gap = since_work]
               /\ UNCHANGED <<config, peer, executed>>

\* tick fetching with handlers that schedule nothing.
TickFetch == TickFetchWith(<<>>, FALSE)

\* The same tick, keeping the history of what each handler was passed.
TickFetchTracked == TickFetchWith(<<>>, TRUE)

\* tick fetching with handlers that schedule actions.
TickFetchScheduling ==
    \E extra \in InTick(Room) :
        TickFetchWith(extra, FALSE)

\* A direct call of get_updates(offset) by the application.
get_updates ==
    \E offset \in OffsetArgs :
      \E resp \in UpdateResponses(RequestOffset(offset)) :
        LET g == GetUpdates(resp)
        IN /\ _offset' = g.offset
           /\ last' = [Quiet("get_updates") EXCEPT
                         !.work = "fetch",
                         !.raised = g.raised,
                         !.calls = <<[method |-> "getUpdates",
                                      offset |-> RequestOffset(offset)]>>,
                         !.resp = resp]
           /\ UNCHANGED <<config, peer, seen, _queue, elapsed, scheduled, executed,
                          since_work>>

\* Time passes between two calls.
Elapse ==
    \E d \in Waits :
        /\ Explored(elapsed + d)
        /\ elapsed' = elapsed + d
        /\ since_work' = Later(since_work, d)
        /\ last' = Quiet("elapse")
        /\ UNCHANGED <<config, peer, seen, _offset, _queue, scheduled, executed>>

\* A timedelta of two seconds or more kept as one second and its microsecond
\* field: tick reads only that field, and the time stays above the default
\* min_query_delay.
Folded(e) ==
    IF e >= MicrosPerSecond + MicrosPerSecond THEN e - MicrosPerSecond ELSE e

\* The driver's loop sleeps between two calls of tick.
Sleep ==
    \E d \in DriverSleeps :
        /\ Microseconds(elapsed + d) <= MaxShortWaits * ShortWait
        /\ elapsed' = Folded(elapsed + d)
        /\ since_work' = Later(since_work, d)
        /\ last' = Quiet("sleep")
        /\ UNCHANGED <<config, peer, seen, _offset, _queue, scheduled, executed>>

\* The driver calls tick once at least min_query_delay has passed since the
\* last unit of work.
DriverTick ==
    /\ \A i \in DOMAIN since_work : since_work[i] >= min_query_delay
    /\ \/ TickThrottled
       \/ TickAction
       \/ TickFetch

\* The engine as its driver uses it: scheduling calls and tick().
Next ==
    \/ send_message
    \/ edit_message_text
    \/ edit_message_reply_markup
    \/ TickThrottled
    \/ TickAction
    \/ TickFetch
    \/ Elapse

Spec == Init /\ [][Next]_vars

\* The cursor under every operation that fetches: tick() with nothing
\* scheduled, and get_updates called directly.
NextFetch ==
    \/ TickThrottled
    \/ TickFetch
    \/ get_updates
    \/ Elapse

SpecFetch == Init /\ [][NextFetch]_vars

\* Ticks alone, and the actions of one kind scheduled between them, with the
\* history of the updates each handler was passed.
NextDelivery ==
    \/ send_message
    \/ TickThrottled
    \/ TickAction
    \/ TickFetchTracked
    \/ Elapse

SpecDelivery == Init /\ [][NextDelivery]_vars

\* Two clients: handlers added on either, actions scheduled on either, and
\* the ticks of the first.
NextPair ==
    \/ AddHandler
    \/ PeerAddHandler
    \/ PeerSchedule
    \/ send_message
    \/ TickThrottled
    \/ TickAction
    \/ TickFetch
    \/ Elapse

SpecPair == InitPair /\ [][NextPair]_vars

\* A driver that calls tick forever, never sooner than min_query_delay after
\* the last unit of work, while the application schedules messages.
NextLive ==
    \/ send_message
    \/ DriverTick
    \/ Sleep

SpecLive ==
    InitDefault /\ [][NextLive]_vars /\ WF_vars(DriverTick) /\ WF_vars(Sleep)

\* The engine with callbacks and handlers that call the scheduling methods
\* of the client while a tick runs them.
NextReentrant ==
    \/ send_message
    \/ TickThrottled
    \/ TickAction
    \/ TickFetch
    \/ TickActionScheduling
    \/ TickFetchScheduling
    \/ Elapse

SpecReentrant == InitDefault /\ [][NextReentrant]_vars

----------------------------------------------------------------------------
(* Claims *)

Ticked == last.op = "tick" /\ ~last.throttled

\* C1: the actions run so far, followed by the actions still queued, are the
\* scheduled actions in the order they were scheduled: ticks run the queue
\* in FIFO order, skipping, repeating, reordering and merging nothing.
C1_Fifo ==
    /\ scheduled = executed \o _queue
    /\ (Ticked /\ last.work = "action") =>
           /\ last.popped = <<last.pre_queue[1]>>
           /\ executed[Len(executed)] = last.pre_queue[1]

\* Two different actions have been scheduled and run by ticks.
C1_Witness ==
    /\ Len(executed) = 2
    /\ executed[1] # executed[2]
    /\ executed = scheduled
    /\ Ticked

\* The last operation fetched, and the response carried a valid list.
Fetched ==
    /\ last.work = "fetch"
    /\ Succeeded(last.resp)
    /\ last.resp.result.tag = "list"

FetchedIds == last.resp.result.ids

CursorFollows ==
    IF FetchedIds # <<>>
    THEN _offset = FetchedIds[Len(FetchedIds)] + 1
    ELSE _offset = last.pre_offset

\* C2, as claimed: after every fetch that returns E1..Ek (k > 0) the cursor is
\* Ek.update_id + 1, and after a fetch that returns nothing it is unchanged,
\* whatever the construction options.
C2_CursorAfterFetchAnyOptions == Fetched => CursorFollows

\* C2, amended: that holds of a client built with offset_autoupdate=True; a
\* client built with offset_autoupdate=False never moves its cursor.
C2_CursorAfterFetch ==
    Fetched => IF offset_autoupdate THEN CursorFollows
               ELSE _offset = last.pre_offset

\* A fetch returned two updates and moved the cursor past the second.
C2_Witness ==
    /\ Fetched
    /\ offset_autoupdate
    /\ Len(FetchedIds) = 2
    /\ _offset = FetchedIds[2] + 1
    /\ _offset # last.pre_offset

\* C3: no operation leaves the cursor lower than it found it, a get_updates
\* call with an explicit offset below the cursor included.
C3_CursorNeverDecreases == _offset >= last.pre_offset

\* C4: when a tick runs a unit of work, no earlier tick that ran one was
\* invoked less than min_query_delay before it, whatever that tick's outcome.
C4_Throttling ==
    (last.op = "tick" /\ last.work # "none" /\ last.gap # <<>>)
        => last.gap[1] >= min_query_delay

\* The unit of work of the last tick failed: no response, a status other than
\* 200, or a body that does not validate.
WorkFailed ==
    /\ Ticked
    /\ \/ ~Succeeded(last.resp)
       \/ last.resp.result.tag = "malformed"

\* C5: a tick whose unit of work failed returns normally; a failed action is
\* reported to its callback as a failure value, a failed fetch reaches no
\* handler.
C5_FailuresStayInTick ==
    WorkFailed =>
        /\ last.raised \notin {"ValidationError", "TypeError"}
        /\ last.work = "action" =>
               last.called_back =
                   <<[callback |-> last.popped[1].callback, arg |-> NoneValue]>>
        /\ last.work = "fetch" => last.handled = <<>>

\* C6: a tick that ran a unit of work has set the clock to now, so that a tick
\* invoked at once is throttled; when it was a fetch that failed, the cursor
\* is where it was.  (Ticks left by an exception of a callback or a handler
\* are set aside.)
C6_ClockAlwaysUpdated ==
    (Ticked /\ last.raised \notin {"callback", "handler"}) =>
        /\ elapsed = 0
        /\ Throttled
        /\ (WorkFailed /\ last.work = "fetch") => _offset = last.pre_offset

\* The update_ids handler h was invoked with by the last tick, in order.
IdsSeenBy(h) ==
    LET mine == SelectSeq(last.handled, LAMBDA c : c.handler = h)
    IN [i \in 1..Len(mine) |-> mine[i].update_id]

OncePerEventInOrder ==
    /\ \A h \in update_handlers : IdsSeenBy(h) = FetchedIds
    /\ \A i \in 1..Len(last.handled) : last.handled[i].handler \in update_handlers

\* C7, as claimed: after every successful fetch of a tick, every registered
\* handler has been invoked once per event, in ascending event order.
C7_OncePerEventAlways == (Ticked /\ Fetched) => OncePerEventInOrder

\* C7, amended: that holds when no handler raised during the dispatch.
C7_OncePerEvent ==
    (Ticked /\ Fetched /\ last.raised = "none") => OncePerEventInOrder

\* A tick dispatched two updates to two handlers, four invocations in all.
C7_Witness ==
    /\ Ticked
    /\ Fetched
    /\ last.raised = "none"
    /\ Len(FetchedIds) = 2
    /\ Cardinality(update_handlers) = 2
    /\ Len(last.handled) = 4

\* C8: a tick that is not throttled does one thing.  With actions queued it
\* pops the head and issues that action's call only: the rest of the queue
\* stays, no fetch is issued, the cursor stays, no handler runs.  With nothing
\* queued it issues one getUpdates call, at the cursor.
C8_OneUnitOfWork ==
    Ticked =>
        IF last.pre_queue # <<>>
        THEN /\ last.work = "action"
             /\ last.popped = <<Head(last.pre_queue)>>
             /\ _queue = Tail(last.pre_queue)
             /\ last.calls = <<[method |-> Head(last.pre_queue).task.method,
                                offset |-> NoOffset]>>
             /\ _offset = last.pre_offset
             /\ last.handled = <<>>
        ELSE /\ last.work = "fetch"
             /\ last.calls = <<[method |-> "getUpdates",
                                offset |-> last.pre_offset]>>
             /\ last.popped = <<>>
             /\ last.called_back = <<>>
             /\ _queue = <<>>

\* A tick ran the head of a queue of two with the cursor past 0.
C8_Witness ==
    /\ Ticked
    /\ Len(last.pre_queue) = 2
    /\ Len(_queue) = 1
    /\ last.pre_offset > 0

\* C9: a tick that is not throttled, finds the queue empty and is answered
\* with an empty list issues that one fetch, invokes no handler, leaves cursor
\* and queue alone, sets the clock and returns normally.
C9_IdleTick ==
    (Ticked /\ last.pre_queue = <<>> /\ Fetched /\ FetchedIds = <<>>) =>
        /\ last.calls = <<[method |-> "getUpdates", offset |-> last.pre_offset]>>
        /\ last.handled = <<>>
        /\ last.called_back = <<>>
        /\ _offset = last.pre_offset
        /\ _queue = last.pre_queue
        /\ elapsed = 0
        /\ last.raised = "none"

\* An idle tick of a client with handlers whose cursor had moved.
C9_Witness ==
    /\ Ticked
    /\ last.pre_queue = <<>>
    /\ Fetched
    /\ FetchedIds = <<>>
    /\ update_handlers # {}
    /\ last.pre_offset > 0

\* What the callback of an action is owed: the Message of a 200 response,
\* the failure value otherwise.
Owed(resp) ==
    IF Succeeded(resp) /\ resp.result.tag = "Message" THEN resp.result
    ELSE NoneValue

\* C10: a tick that ran an action has invoked the callback scheduled with it,
\* and no other, once, with the result of the call; after a status other than
\* 200 it has invoked it with the failure value and returned normally.
C10_CallbackOnce ==
    (Ticked /\ last.work = "action") =>
        /\ last.called_back =
               <<[callback |-> Head(last.pre_queue).callback,
                  arg |-> Owed(last.resp)]>>
        /\ last.resp = BadStatus => last.raised \in {"none", "callback"}

\* C13: a scheduling call appends one entry at the tail of the queue and does
\* nothing else: no call is issued, no callback or handler runs, and the
\* cursor, the clock and the entries already queued stay as they were.
C13_ScheduleOnlyAppends ==
    [][last'.op = "schedule" =>
          /\ Len(_queue') = Len(_queue) + 1
          /\ SubSeq(_queue', 1, Len(_queue)) = _queue
          /\ _queue'[Len(_queue')] = scheduled'[Len(scheduled')]
          /\ last'.calls = <<>>
          /\ last'.called_back = <<>>
          /\ last'.handled = <<>>
          /\ executed' = executed
          /\ _offset' = _offset
          /\ elapsed' = elapsed]_vars

\* An action was scheduled behind another one, the cursor and the clock
\* having moved before.
C13_Witness ==
    /\ last.op = "schedule"
    /\ Len(_queue) = 2
    /\ _queue[1] # _queue[2]
    /\ _offset > 0
    /\ elapsed > 0

\* C14: a tick is throttled exactly when less than min_query_delay has
\* elapsed since the clock was set.
C14_ThrottledIffTooEarly ==
    [][last'.op = "tick" =>
          (last'.throttled <=> elapsed < min_query_delay)]_vars

\* C15: a throttled tick changes nothing: no call, no callback, no handler,
\* and the queue, the cursor and the clock are as before.
C15_ThrottledTickIsNoOp ==
    [][(last'.op = "tick" /\ last'.throttled) =>
          /\ _queue' = _queue
          /\ _offset' = _offset
          /\ elapsed' = elapsed
          /\ executed' = executed
          /\ last'.calls = <<>>
          /\ last'.called_back = <<>>
          /\ last'.handled = <<>>]_vars

\* A tick was throttled with an action waiting and some time elapsed.
C15_Witness ==
    /\ last.op = "tick"
    /\ last.throttled
    /\ _queue # <<>>
    /\ elapsed > 0

\* The call of the last tick's action failed, or the tick was left by an
\* exception.
ActionFailed ==
    /\ Ticked
    /\ last.work = "action"
    /\ (WorkFailed \/ last.raised # "none")

\* C16: an action whose tick failed is gone from the queue all the same, and
\* no action's call is issued twice: the calls issued and the entries still
\* queued are the scheduled actions, each once.
C16_NoRetry ==
    /\ ActionFailed => _queue = Tail(last.pre_queue)
    /\ scheduled = executed \o _queue
    /\ Ticked => Len(last.calls) = 1

\* The first of two queued actions failed with a bad status and only the
\* second is left.
C16_Witness ==
    /\ ActionFailed
    /\ last.resp = BadStatus
    /\ Len(last.pre_queue) = 2
    /\ _queue = <<last.pre_queue[2]>>

\* C17: when a handler raises, the dispatch ends there: the invocations made
\* are those up to the one that raised, in dispatch order, and none after it.
C17_NoIsolation ==
    (Ticked /\ last.raised = "handler") =>
        /\ Len(last.handled) = last.raised_at
        /\ \E order \in Orders(update_handlers) :
               last.handled =
                   SubSeq(Invocations(FetchedIds, order), 1, last.raised_at)

\* The first of four invocations raised and the other three were not made.
C17_Witness ==
    /\ Ticked
    /\ last.raised = "handler"
    /\ last.raised_at = 1
    /\ Len(FetchedIds) = 2
    /\ Cardinality(update_handlers) = 2
    /\ Len(last.handled) = 1

\* C18, as claimed: when a handler raises during the dispatch of a batch, the
\* cursor keeps the value it had before the fetch.
C18_CursorBlocked ==
    (Ticked /\ last.raised = "handler") => _offset = last.pre_offset

\* C18, amended: the cursor was moved past the batch before the dispatch
\* began, so a handler that raises does not hold it back (a client built with
\* offset_autoupdate=False never moves it).
C18_CursorAdvancedAnyway ==
    (Ticked /\ last.raised = "handler") =>
        IF offset_autoupdate
        THEN _offset = FetchedIds[Len(FetchedIds)] + 1 /\ _offset > last.pre_offset
        ELSE _offset = last.pre_offset

\* A handler raised on the first update of a batch of two; the cursor is
\* past the second.
C18_Witness ==
    /\ Ticked
    /\ last.raised = "handler"
    /\ offset_autoupdate
    /\ last.raised_at = 1
    /\ Len(FetchedIds) = 2
    /\ _offset = FetchedIds[2] + 1

\* The ids the last tick passed to handler h are above every id an earlier
\* tick passed to it, and ascending.
NewTo(h, before, ids) ==
    /\ \A i \in DOMAIN ids : ids[i] > before[h]
    /\ \A i, j \in DOMAIN ids : i < j => ids[i] < ids[j]

\* C12, as claimed: over any sequence of ticks a handler is passed every
\* event in at most one tick and sees strictly increasing ids.
C12_AtMostOnceInOrderAlways ==
    [][last'.op = "tick" =>
          \A h \in Handlers :
              LET mine == SelectSeq(last'.handled, LAMBDA c : c.handler = h)
              IN NewTo(h, seen, [i \in 1..Len(mine) |-> mine[i].update_id])]_vars

\* C12, amended: that holds for a client built with offset_autoupdate=True.
C12_AtMostOnceInOrder ==
    [][(last'.op = "tick" /\ offset_autoupdate) =>
          \A h \in Handlers :
              LET mine == SelectSeq(last'.handled, LAMBDA c : c.handler = h)
              IN NewTo(h, seen, [i \in 1..Len(mine) |-> mine[i].update_id])]_vars

\* A second tick has dispatched a batch, to a handler that an earlier tick
\* had passed update 1.
C12_Witness ==
    /\ Ticked
    /\ Fetched
    /\ offset_autoupdate
    /\ last.pre_offset = 2
    /\ \E h \in Handlers : seen[h] > 1 /\ IdsSeenBy(h) # <<>>

\* C20: actions scheduled by a callback or a handler while a tick runs are
\* appended, in scheduling order, behind everything queued; the tick runs
\* none of them, it issues the one call chosen before they were scheduled;
\* and a fetch is issued only with nothing queued, so later ticks run them
\* all, in that order, before the next fetch.
C20_ScheduledInTickRunLater ==
    /\ scheduled = executed \o _queue
    /\ Ticked =>
          /\ Len(last.calls) = 1
          /\ last.work = "action" =>
                /\ last.popped = <<Head(last.pre_queue)>>
                /\ _queue = Tail(last.pre_queue) \o last.extra
          /\ last.work = "fetch" =>
                /\ last.pre_queue = <<>>
                /\ last.popped = <<>>
                /\ _queue = last.extra

\* A callback scheduled an action while another one was still queued behind
\* the one that was run.
C20_Witness ==
    /\ Ticked
    /\ last.work = "action"
    /\ Len(last.pre_queue) = 2
    /\ Len(last.extra) = 1
    /\ last.extra[1] # last.pre_queue[2]
    /\ _queue = <<last.pre_queue[2]>> \o last.extra

\* C11: each client has a handler set and a queue of its own: adding a
\* handler or scheduling an action on one client leaves the other's set and
\* queue as they were, and a tick of one client invokes only handlers that
\* were registered on that client.
C11_OwnHandlersAndQueue ==
    /\ last.op = "add_handler" =>
           peer_update_handlers = last.pre_peer.update_handlers
    /\ last.op = "peer_add_handler" => update_handlers = last.pre_handlers
    /\ last.op = "schedule" => peer_queue = last.pre_peer.queue
    /\ last.op = "peer_schedule" => _queue = last.pre_queue
    /\ Ticked =>
           \A i \in DOMAIN last.handled :
               last.handled[i].handler \in registered.here

\* C19: with a driver that calls tick forever, each call at least
\* min_query_delay after the last unit of work, and callbacks that never
\* raise, every scheduled action is eventually run and fetches are issued
\* again and again once the queue is empty.
C19_QueueDrainsFetchesResume ==
    [](last.raised # "callback") =>
        /\ (_queue # <<>>) ~> (_queue = <<>>)
        /\ []<>(Ticked /\ last.work = "fetch")

\* C21: the clock starts at the construction of the client: while no unit
\* of work has been run yet, a tick called less than min_query_delay after
\* the construction is throttled: it issues no call, runs no callback or
\* handler and leaves the queue and the cursor as they were.
C21_ThrottledAfterConstruction ==
    [][(last'.op = "tick" /\ since_work = <<>> /\ elapsed < min_query_delay) =>
          /\ last'.throttled
          /\ last'.calls = <<>>
          /\ last'.called_back = <<>>
          /\ last'.handled = <<>>
          /\ executed' = executed
          /\ _queue' = _queue
          /\ _offset' = _offset]_vars

\* The first tick of a client, called with an action queued a short wait
\* after the construction, was throttled.
C21_Witness ==
    /\ last.op = "tick"
    /\ last.throttled
    /\ last.gap = <<>>
    /\ since_work = <<>>
    /\ elapsed = ShortWait
    /\ elapsed < min_query_delay
    /\ _queue # <<>>
    /\ executed = <<>>

====
